---- MODULE Spec2Model ----
(***************************************************************************)
(* A model of metrics/sources/summary/client.go: the Kubelet summary       *)
(* client.  Strings are sequences of one-character strings, so that the    *)
(* formatting (%q, %s:%d, url.String) and the parsing (url.Parse in        *)
(* http.NewRequest, json.Unmarshal) are computed, not assumed.             *)
(***************************************************************************)
EXTENDS Integers, Sequences, FiniteSets, TLC

(***************************************************************************)
(* Bounds of the model.                                                    *)
(***************************************************************************)
\* number of goroutines calling GetSummary on the one client
NumCallers == 2
\* longest host argument enumerated in the single-caller specification
MaxHostLen == 2

\* http.StatusOK and http.StatusNotFound
StatusOK == 200
StatusNotFound == 404

(***************************************************************************)
(* Text helpers.                                                           *)
(***************************************************************************)
Digit == <<"0", "1", "2", "3", "4", "5", "6", "7", "8", "9">>
DigitChars == {Digit[i] : i \in 1..10}
LowerChars == {"a", "b", "c", "d", "e", "f", "g", "h", "i", "j", "k", "l", "m",
               "n", "o", "p", "q", "r", "s", "t", "u", "v", "w", "x", "y", "z"}

\* the %d verb on an unsigned integer
RECURSIVE Itoa(_)
Itoa(n) == IF n < 10 THEN <<Digit[n + 1]>>
           ELSE Itoa(n \div 10) \o <<Digit[(n % 10) + 1]>>

\* s[from..] (1-based), empty when from is past the end
Drop(s, from) == IF from > Len(s) THEN <<>> ELSE SubSeq(s, from, Len(s))
Take(s, n) == IF n <= 0 THEN <<>> ELSE SubSeq(s, 1, IF n > Len(s) THEN Len(s) ELSE n)

HasPrefixAt(s, p, i) ==
    /\ i >= 1
    /\ i + Len(p) - 1 <= Len(s)
    /\ \A k \in 1..Len(p) : s[i + k - 1] = p[k]

HasPrefix(s, p) == HasPrefixAt(s, p, 1)

\* strings.Contains
Contains(s, p) == \E i \in 1..(Len(s) + 1) : HasPrefixAt(s, p, i)

\* strings.Index and strings.LastIndex of a one-character string, 0 when absent
Index(s, c) ==
    IF \E i \in 1..Len(s) : s[i] = c
    THEN CHOOSE i \in 1..Len(s) : s[i] = c /\ \A j \in 1..(i - 1) : s[j] # c
    ELSE 0

LastIndex(s, c) ==
    IF \E i \in 1..Len(s) : s[i] = c
    THEN CHOOSE i \in 1..Len(s) : s[i] = c /\ \A j \in (i + 1)..Len(s) : s[j] # c
    ELSE 0

\* Text is printable ASCII together with the control characters newline,
\* tab, carriage return and form feed and the bytes named here: 0x00, 0x07,
\* 0x08, 0x0B, 0x1B and 0x7F.
NamedBytes == {"NUL", "BEL", "BS", "VT", "ESC", "DEL"}
\* the bytes below 0x20
ControlChars == {"\n", "\t", "\r", "\f", "NUL", "BEL", "BS", "VT", "ESC"}

\* what strconv.Quote writes for one character: a backslash before a double
\* quote and a backslash, the escapes \a \b \f \n \r \t \v, \x and two hex
\* digits for the other control bytes, and every other character as it is
QuoteChar(c) ==
    CASE c = "\"" -> <<"\\", "\"">>
      [] c = "\\" -> <<"\\", "\\">>
      [] c = "\n" -> <<"\\", "n">>
      [] c = "\t" -> <<"\\", "t">>
      [] c = "\r" -> <<"\\", "r">>
      [] c = "\f" -> <<"\\", "f">>
      [] c = "BEL" -> <<"\\", "a">>
      [] c = "BS" -> <<"\\", "b">>
      [] c = "VT" -> <<"\\", "v">>
      [] c = "NUL" -> <<"\\", "x", "0", "0">>
      [] c = "ESC" -> <<"\\", "x", "1", "b">>
      [] c = "DEL" -> <<"\\", "x", "7", "f">>
      [] OTHER -> <<c>>

\* strconv.Quote, the %q verb: the text in double quotes, character by
\* character as QuoteChar writes it
RECURSIVE QuoteBody(_)
QuoteBody(s) ==
    IF s = <<>> THEN <<>> ELSE QuoteChar(Head(s)) \o QuoteBody(Tail(s))

Quote(s) == <<"\"">> \o QuoteBody(s) \o <<"\"">>

(***************************************************************************)
(* net/url as GetSummary and http.NewRequest use it, on ASCII text without *)
(* control characters, upper-case letters or square brackets.              *)
(***************************************************************************)
\* shouldEscape(c, encodeHost): unreserved characters, the sub-delims and
\* : [ ] < > " stay as they are in a host
HostSafeChars == LowerChars \cup DigitChars \cup
                 {"-", "_", ".", "~", "!", "$", "&", "'", "(", ")", "*", "+",
                  ",", ";", "=", ":", "[", "]", "<", ">", "\""}

ShouldEscapeHost(c) == c \notin HostSafeChars

\* the two upper-case hex digits of the ASCII characters escape() meets here
HexOf == [c \in {" ", "#", "%", "/", "?", "@"} |->
            CASE c = " " -> <<"2", "0">>
              [] c = "#" -> <<"2", "3">>
              [] c = "%" -> <<"2", "5">>
              [] c = "/" -> <<"2", "F">>
              [] c = "?" -> <<"3", "F">>
              [] c = "@" -> <<"4", "0">>]

\* escape(s, encodeHost)
RECURSIVE EscapeHost(_)
EscapeHost(s) ==
    IF s = <<>> THEN <<>>
    ELSE (IF ShouldEscapeHost(Head(s)) THEN <<"%">> \o HexOf[Head(s)] ELSE <<Head(s)>>)
         \o EscapeHost(Tail(s))

HexChars == DigitChars \cup {"a", "b", "c", "d", "e", "f", "A", "B", "C", "D", "E", "F"}

\* unhex
HexVal(c) ==
    IF c \in DigitChars THEN (CHOOSE i \in 1..10 : Digit[i] = c) - 1
    ELSE CASE c \in {"a", "A"} -> 10
           [] c \in {"b", "B"} -> 11
           [] c \in {"c", "C"} -> 12
           [] c \in {"d", "D"} -> 13
           [] c \in {"e", "E"} -> 14
           [] c \in {"f", "F"} -> 15

\* EscapeError(e).Error()
EscapeErrorText(e) ==
    <<"i", "n", "v", "a", "l", "i", "d", " ", "U", "R", "L", " ", "e", "s", "c", "a", "p", "e", " ">> \o Quote(e)

\* InvalidHostError(e).Error()
InvalidHostErrorText(e) ==
    <<"i", "n", "v", "a", "l", "i", "d", " ", "c", "h", "a", "r", "a", "c", "t", "e", "r", " ">> \o Quote(e)
    \o <<" ", "i", "n", " ", "h", "o", "s", "t", " ", "n", "a", "m", "e">>

\* the port error of parseHost
InvalidPortText(colonPort) ==
    <<"i", "n", "v", "a", "l", "i", "d", " ", "p", "o", "r", "t", " ">> \o Quote(colonPort)
    \o <<" ", "a", "f", "t", "e", "r", " ", "h", "o", "s", "t">>

\* unescape(s, encodeHost): a % needs two hex digits after it, and in a host
\* only %25 and bytes of 0x80 and above may be percent-encoded.  The only
\* escape that passes on ASCII text is therefore %25, the percent sign.  The
\* first offence from the left is the one reported: an escape with the (at
\* most three) characters it starts, a character that needed escaping with
\* itself.
RECURSIVE UnescapeHost(_)
UnescapeHost(s) ==
    IF s = <<>> THEN [ok |-> TRUE, s |-> <<>>, err |-> <<>>]
    ELSE IF Head(s) = "%"
    THEN IF Len(s) < 3 \/ s[2] \notin HexChars \/ s[3] \notin HexChars
         THEN [ok |-> FALSE, s |-> <<>>, err |-> EscapeErrorText(Take(s, 3))]
         ELSE IF HexVal(s[2]) < 8 /\ Take(s, 3) # <<"%", "2", "5">>
         THEN [ok |-> FALSE, s |-> <<>>, err |-> EscapeErrorText(Take(s, 3))]
         ELSE LET rest == UnescapeHost(Drop(s, 4))
                  c == IF Take(s, 3) = <<"%", "2", "5">> THEN "%"
                       ELSE "\\x" \* a byte of 0x80 or above
              IN [ok |-> rest.ok, s |-> IF rest.ok THEN <<c>> \o rest.s ELSE <<>>,
                  err |-> rest.err]
    ELSE IF ShouldEscapeHost(Head(s))
    THEN [ok |-> FALSE, s |-> <<>>, err |-> InvalidHostErrorText(<<Head(s)>>)]
    ELSE LET rest == UnescapeHost(Tail(s))
         IN [ok |-> rest.ok, s |-> IF rest.ok THEN <<Head(s)>> \o rest.s ELSE <<>>,
             err |-> rest.err]

\* validOptionalPort: empty, or a colon followed by digits only
ValidOptionalPort(p) ==
    \/ p = <<>>
    \/ /\ Head(p) = ":"
       /\ \A i \in 2..Len(p) : p[i] \in DigitChars

\* parseHost, for a host that does not start with a square bracket
ParseHost(h) ==
    IF LastIndex(h, ":") # 0 /\ ~ValidOptionalPort(Drop(h, LastIndex(h, ":")))
    THEN [ok |-> FALSE, s |-> <<>>,
          err |-> InvalidPortText(Drop(h, LastIndex(h, ":")))]
    ELSE UnescapeHost(h)

\* url.URL.String for a URL with a scheme, a host and an absolute path
URLString(u) == u.Scheme \o <<":", "/", "/">> \o EscapeHost(u.Host) \o u.Path

NoURL == [Scheme |-> <<>>, Host |-> <<>>, Path |-> <<>>, RawQuery |-> <<>>]

\* getscheme's error
MissingSchemeText ==
    <<"m", "i", "s", "s", "i", "n", "g", " ", "p", "r", "o", "t", "o", "c", "o", "l", " ", "s", "c", "h", "e", "m", "e">>

\* url.Parse of a text of the form scheme://authority/path, the form
\* URLString writes: cut the fragment at the first #, take the scheme up to
\* the first colon, cut the query at the first ?, and after // read the
\* authority up to the next slash; what is left is the path.  A failure
\* carries the cause that url.Parse puts into its *url.Error.
ParseURL(raw) ==
    LET noFrag == IF Index(raw, "#") = 0 THEN raw ELSE Take(raw, Index(raw, "#") - 1)
        colon == Index(noFrag, ":")
        scheme == Take(noFrag, colon - 1)
        afterScheme == Drop(noFrag, colon + 1)
        q == Index(afterScheme, "?")
        rest == IF q = 0 THEN afterScheme ELSE Take(afterScheme, q - 1)
        query == IF q = 0 THEN <<>> ELSE Drop(afterScheme, q + 1)
        afterSlashes == Drop(rest, 3)
        slash == Index(afterSlashes, "/")
        authority == IF slash = 0 THEN afterSlashes ELSE Take(afterSlashes, slash - 1)
        path == IF slash = 0 THEN <<>> ELSE Drop(afterSlashes, slash)
        at == LastIndex(authority, "@")
        host == ParseHost(Drop(authority, at + 1))
    IN IF \/ colon <= 1
          \/ \E i \in 1..Len(scheme) : scheme[i] \notin LowerChars
          \/ ~HasPrefix(rest, <<"/", "/">>)
          \/ ~host.ok
       THEN [ok |-> FALSE, url |-> NoURL,
             err |-> IF colon > 1
                        /\ (\A i \in 1..Len(scheme) : scheme[i] \in LowerChars)
                        /\ HasPrefix(rest, <<"/", "/">>)
                     THEN host.err ELSE MissingSchemeText]
       ELSE [ok |-> TRUE,
             url |-> [Scheme |-> scheme, Host |-> host.s, Path |-> path,
                      RawQuery |-> query],
             err |-> <<>>]

(***************************************************************************)
(* Error values: the dynamic type of the error and what it carries.  An    *)
(* *ErrNotFound carries its endpoint, every other error its message.       *)
(***************************************************************************)
NilErr == [type |-> "nil", text |-> <<>>]

MkErr(type, text) == [type |-> type, text |-> text]

\* fmt.Errorf without %w
Errorf(text) == MkErr("*errors.errorString", text)

(***************************************************************************)
(* encoding/json as postRequestAndGetValue uses it: json.Unmarshal into a  *)
(* *stats.Summary, of which the model keeps Node.NodeName.  The grammar    *)
(* covers objects, strings without escape sequences, unsigned integers,    *)
(* null, true, false and blanks.                                           *)
(***************************************************************************)
JV(t, s, m) == [t |-> t, s |-> s, m |-> m]

\* the scanner's verdict: err is "" for a value read up to pos, "char" for an
\* invalid character at pos, "blank" for an input that ends at pos inside a
\* literal name (scanner.eof steps the state once more with a blank), "eof"
\* for any other input that ends too early; ctx is what the scanner says it
\* was doing when it met the character
POk(pos, v) == [err |-> "", pos |-> pos, v |-> v, ctx |-> <<>>]
PFail(kind, pos, ctx) ==
    [err |-> kind, pos |-> pos, v |-> JV("null", <<>>, <<>>), ctx |-> ctx]

CtxBeginValue == <<"l", "o", "o", "k", "i", "n", "g", " ", "f", "o", "r", " ", "b", "e", "g", "i", "n", "n", "i", "n", "g", " ", "o", "f", " ", "v", "a", "l", "u", "e">>
CtxBeginString == <<"l", "o", "o", "k", "i", "n", "g", " ", "f", "o", "r", " ", "b", "e", "g", "i", "n", "n", "i", "n", "g", " ", "o", "f", " ", "o", "b", "j", "e", "c", "t", " ", "k", "e", "y", " ", "s", "t", "r", "i", "n", "g">>
CtxAfterKey == <<"a", "f", "t", "e", "r", " ", "o", "b", "j", "e", "c", "t", " ", "k", "e", "y">>
CtxAfterPair == <<"a", "f", "t", "e", "r", " ", "o", "b", "j", "e", "c", "t", " ", "k", "e", "y", ":", "v", "a", "l", "u", "e", " ", "p", "a", "i", "r">>
CtxAfterTop == <<"a", "f", "t", "e", "r", " ", "t", "o", "p", "-", "l", "e", "v", "e", "l", " ", "v", "a", "l", "u", "e">>
CtxInString == <<"i", "n", " ", "s", "t", "r", "i", "n", "g", " ", "l", "i", "t", "e", "r", "a", "l">>

\* the context of the states of a literal name: lit is the name, k the
\* position in it of the letter expected
CtxInLiteral(lit, k) ==
    <<"i", "n", " ", "l", "i", "t", "e", "r", "a", "l", " ">> \o lit \o <<" ", "(", "e", "x", "p", "e", "c", "t", "i", "n", "g", " ", "'">> \o <<lit[k]>>
    \o <<"'", ")">>

RECURSIVE SkipWS(_, _)
SkipWS(b, i) ==
    IF i <= Len(b) /\ b[i] \in {" ", "\t", "\r", "\n"} THEN SkipWS(b, i + 1) ELSE i

\* a literal name starting at j: the first letter that is not the one
\* expected is an invalid character, and so is the end of the input, which
\* the scanner takes for a blank
ParseLiteral(b, j, lit, v) ==
    LET bad == {k \in 1..Len(lit) : j + k - 1 > Len(b) \/ b[j + k - 1] # lit[k]}
        k0 == CHOOSE k \in bad : \A o \in bad : k <= o
    IN IF bad = {} THEN POk(j + Len(lit), v)
       ELSE IF j + k0 - 1 > Len(b) THEN PFail("blank", j + k0 - 1, CtxInLiteral(lit, k0))
       ELSE PFail("char", j + k0 - 1, CtxInLiteral(lit, k0))

\* the first control character among b[lo..hi], 0 when there is none
FirstControl(b, lo, hi) ==
    IF \E k \in lo..hi : b[k] \in ControlChars
    THEN CHOOSE k \in lo..hi :
            b[k] \in ControlChars /\ \A o \in lo..(k - 1) : b[o] \notin ControlChars
    ELSE 0

\* a string starting at the quote at j whose closing quote is q characters
\* further, or missing when q is 0; a control character before the closing
\* quote is an invalid character
ParseStringTo(b, j, q) ==
    IF FirstControl(b, j + 1, IF q = 0 THEN Len(b) ELSE j + q - 1) # 0
    THEN PFail("char", FirstControl(b, j + 1, IF q = 0 THEN Len(b) ELSE j + q - 1),
               CtxInString)
    ELSE IF q = 0 THEN PFail("eof", Len(b) + 1, <<>>)
    ELSE POk(j + q + 1, JV("string", SubSeq(b, j + 1, j + q - 1), <<>>))

\* a string starting at the quote at j, ending at the next quote
ParseString(b, j) == ParseStringTo(b, j, Index(Drop(b, j + 1), "\""))

\* an unsigned integer starting at the digit at j: 0, or digits without a
\* leading 0
ParseNumber(b, j) ==
    LET e == IF b[j] = "0" THEN j + 1
             ELSE CHOOSE e \in (j + 1)..(Len(b) + 1) :
                    /\ \A i \in j..(e - 1) : b[i] \in DigitChars
                    /\ e = Len(b) + 1 \/ b[e] \notin DigitChars
    IN POk(e, JV("number", SubSeq(b, j, e - 1), <<>>))

RECURSIVE ParseValue(_, _), ParseMembers(_, _, _)
\* the members of an object, the next key expected at or after i
ParseMembers(b, i, acc) ==
    LET j == SkipWS(b, i)
        key == ParseString(b, j)
        c == SkipWS(b, key.pos)
        val == ParseValue(b, c + 1)
        d == SkipWS(b, val.pos)
    IN IF j > Len(b) THEN PFail("eof", j, <<>>)
       ELSE IF b[j] # "\"" THEN PFail("char", j, CtxBeginString)
       ELSE IF key.err # "" THEN key
       ELSE IF c > Len(b) THEN PFail("eof", c, <<>>)
       ELSE IF b[c] # ":" THEN PFail("char", c, CtxAfterKey)
       ELSE IF val.err # "" THEN val
       ELSE IF d > Len(b) THEN PFail("eof", d, <<>>)
       ELSE IF b[d] = "," THEN ParseMembers(b, d + 1, Append(acc, <<key.v.s, val.v>>))
       ELSE IF b[d] = "}"
            THEN POk(d + 1, JV("object", <<>>, Append(acc, <<key.v.s, val.v>>)))
       ELSE PFail("char", d, CtxAfterPair)

ParseValue(b, i) ==
    LET j == SkipWS(b, i)
    IN IF j > Len(b) THEN PFail("eof", j, <<>>)
       ELSE IF b[j] = "\"" THEN ParseString(b, j)
       ELSE IF b[j] \in DigitChars THEN ParseNumber(b, j)
       ELSE IF b[j] = "n"
            THEN ParseLiteral(b, j, <<"n", "u", "l", "l">>, JV("null", <<>>, <<>>))
       ELSE IF b[j] = "t"
            THEN ParseLiteral(b, j, <<"t", "r", "u", "e">>, JV("bool", <<>>, <<>>))
       ELSE IF b[j] = "f"
            THEN ParseLiteral(b, j, <<"f", "a", "l", "s", "e">>, JV("bool", <<>>, <<>>))
       ELSE IF b[j] = "{"
            THEN LET k == SkipWS(b, j + 1)
                 IN IF k > Len(b) THEN PFail("eof", k, <<>>)
                    ELSE IF b[k] = "}" THEN POk(k + 1, JV("object", <<>>, <<>>))
                    ELSE ParseMembers(b, j + 1, <<>>)
       ELSE PFail("char", j, CtxBeginValue)

\* checkValid: one value, then nothing but blanks
ParseJSON(b) ==
    LET r == ParseValue(b, 1)
        e == SkipWS(b, r.pos)
    IN IF r.err # "" THEN r
       ELSE IF e <= Len(b) THEN PFail("char", e, CtxAfterTop)
       ELSE r

\* quoteChar of encoding/json: the character in single quotes, written as
\* strconv.Quote writes it, but a double quote bare and a single quote with
\* a backslash
QuoteCharJSON(c) ==
    IF c = "'" THEN <<"'", "\\", "'", "'">>
    ELSE IF c = "\"" THEN <<"'", "\"", "'">>
    ELSE <<"'">> \o QuoteChar(c) \o <<"'">>

\* the text of a *json.SyntaxError: the end of the input, or the invalid
\* character and what the scanner was doing; the character of an input that
\* ends inside a literal name is the blank
SyntaxErrorText(b, r) ==
    IF r.err = "eof"
    THEN <<"u", "n", "e", "x", "p", "e", "c", "t", "e", "d", " ", "e", "n", "d", " ",
           "o", "f", " ", "J", "S", "O", "N", " ", "i", "n", "p", "u", "t">>
    ELSE <<"i", "n", "v", "a", "l", "i", "d", " ", "c", "h", "a", "r", "a", "c", "t",
           "e", "r", " ">>
         \o QuoteCharJSON(IF r.err = "blank" THEN " " ELSE b[r.pos])
         \o <<" ">> \o r.ctx

\* the text of a *json.UnmarshalTypeError, up to the JSON kind it names
TypeErrorText(v) ==
    <<"j", "s", "o", "n", ":", " ", "c", "a", "n", "n", "o", "t", " ", "u", "n", "m",
      "a", "r", "s", "h", "a", "l", " ">>
    \o (CASE v.t = "number" -> <<"n", "u", "m", "b", "e", "r">>
          [] v.t = "string" -> <<"s", "t", "r", "i", "n", "g">>
          [] v.t = "object" -> <<"o", "b", "j", "e", "c", "t">>
          [] v.t = "bool" -> <<"b", "o", "o", "l">>)

TypeError(v) == MkErr("*json.UnmarshalTypeError", TypeErrorText(v))

UpperSeq == <<"A", "B", "C", "D", "E", "F", "G", "H", "I", "J", "K", "L", "M",
              "N", "O", "P", "Q", "R", "S", "T", "U", "V", "W", "X", "Y", "Z">>
LowerSeq == <<"a", "b", "c", "d", "e", "f", "g", "h", "i", "j", "k", "l", "m",
              "n", "o", "p", "q", "r", "s", "t", "u", "v", "w", "x", "y", "z">>
ToLower(c) == IF \E i \in 1..26 : UpperSeq[i] = c
              THEN LowerSeq[CHOOSE i \in 1..26 : UpperSeq[i] = c] ELSE c

\* a key names a field when it equals the field's JSON name, letter case aside
KeyIs(k, name) ==
    /\ Len(k) = Len(name)
    /\ \A i \in 1..Len(k) : ToLower(k[i]) = ToLower(name[i])

\* &stats.Summary{}
EmptySummary == [Node |-> [NodeName |-> <<>>]]

\* decoding keeps the first type error and goes on with the rest of the input
\* st = [v |-> the Go value so far, errs |-> the type errors so far]
DecodeNodeName(jv, st) ==
    IF jv.t = "null" THEN st
    ELSE IF jv.t = "string" THEN [st EXCEPT !.v.Node.NodeName = jv.s]
    ELSE [st EXCEPT !.errs = Append(@, TypeError(jv))]

RECURSIVE DecodeNodeMembers(_, _)
DecodeNodeMembers(m, st) ==
    IF m = <<>> THEN st
    ELSE DecodeNodeMembers(Tail(m),
            IF KeyIs(Head(m)[1], <<"n", "o", "d", "e", "N", "a", "m", "e">>)
            THEN DecodeNodeName(Head(m)[2], st) ELSE st)

DecodeNode(jv, st) ==
    IF jv.t = "null" THEN st
    ELSE IF jv.t = "object" THEN DecodeNodeMembers(jv.m, st)
    ELSE [st EXCEPT !.errs = Append(@, TypeError(jv))]

RECURSIVE DecodeSummaryMembers(_, _)
DecodeSummaryMembers(m, st) ==
    IF m = <<>> THEN st
    ELSE DecodeSummaryMembers(Tail(m),
            IF KeyIs(Head(m)[1], <<"n", "o", "d", "e">>)
            THEN DecodeNode(Head(m)[2], st) ELSE st)

DecodeSummary(jv, st) ==
    IF jv.t = "null" THEN st
    ELSE IF jv.t = "object" THEN DecodeSummaryMembers(jv.m, st)
    ELSE [st EXCEPT !.errs = Append(@, TypeError(jv))]

\* json.Unmarshal(data, value): a syntax error leaves the value untouched; a
\* type error is returned after the rest of the input has been decoded
Unmarshal(data, value) ==
    LET r == ParseJSON(data)
        st == DecodeSummary(r.v, [v |-> value, errs |-> <<>>])
    IN IF r.err # ""
       THEN [value |-> value, err |-> MkErr("*json.SyntaxError", SyntaxErrorText(data, r))]
       ELSE [value |-> st.v, err |-> IF st.errs = <<>> THEN NilErr ELSE st.errs[1]]

(***************************************************************************)
(* client.go: the error type and its predicate.                            *)
(***************************************************************************)
\* &ErrNotFound{endpoint}
ErrNotFound(endpoint) == MkErr("*summary.ErrNotFound", endpoint)

\* err.Error()
ErrorMsg(err) ==
    IF err.type = "*summary.ErrNotFound"
    THEN Quote(err.text) \o <<" ", "n", "o", "t", " ", "f", "o", "u", "n", "d">>
    ELSE err.text

\* a predicate that takes every error for a not-found error
IsNotFoundErrorAnyError(err) == err # NilErr

\* the type assertion err.(*ErrNotFound)
IsNotFoundError(err) == err.type = "*summary.ErrNotFound"

(***************************************************************************)
(* client.go: the client and the request GetSummary builds.                *)
(***************************************************************************)
NilClient == [nil |-> TRUE, Transport |-> "none"]
DefaultClient == [nil |-> FALSE, Transport |-> "http.DefaultTransport"]

NewKubeletClient(transport, port, portIsInsecure) ==
    [portIsInsecure |-> portIsInsecure,
     port |-> port,
     client |-> [nil |-> FALSE, Transport |-> transport]]

SchemeHTTPS == <<"h", "t", "t", "p", "s">>
SchemeHTTP == <<"h", "t", "t", "p">>
SummaryPath == <<"/", "s", "t", "a", "t", "s", "/", "s", "u", "m", "m", "a", "r", "y", "/">>

\* the scheme chosen the wrong way round
SummaryURLFlagInverted(k, h) ==
    [Scheme |-> IF k.portIsInsecure THEN SchemeHTTPS ELSE SchemeHTTP,
     Host |-> h \o <<":">> \o Itoa(k.port),
     Path |-> SummaryPath,
     RawQuery |-> <<>>]

\* the url.URL of GetSummary
SummaryURL(k, h) ==
    [Scheme |-> IF k.portIsInsecure THEN SchemeHTTP ELSE SchemeHTTPS,
     Host |-> h \o <<":">> \o Itoa(k.port),
     Path |-> SummaryPath,
     RawQuery |-> <<>>]

NoReq == [Method |-> <<>>, URL |-> NoURL, Body |-> "nil"]

\* http.NewRequest(method, url, nil): the URL is parsed again; a URL that
\* does not parse gives a *url.Error of the operation "parse", whose message
\* is the operation, the quoted URL, a colon and the cause
NewRequest(method, raw) ==
    LET u == ParseURL(raw)
    IN IF u.ok
       THEN [req |-> [Method |-> method, URL |-> u.url, Body |-> "nil"], err |-> NilErr]
       ELSE [req |-> NoReq,
             err |-> MkErr("*url.Error",
                           <<"p", "a", "r", "s", "e", " ">> \o Quote(raw)
                           \o <<":", " ">> \o u.err)]

\* kc.client, or http.DefaultClient when it is nil
ClientOf(k) == IF k.client = NilClient THEN DefaultClient ELSE k.client

\* summary := &stats.Summary{}
NilSummary == [nil |-> TRUE, v |-> EmptySummary]
NewSummary == [nil |-> FALSE, v |-> EmptySummary]

(***************************************************************************)
(* client.go: postRequestAndGetValue, piece by piece.                      *)
(***************************************************************************)
\* the transport's error wrapped into a new error
DoErrorWrapped(err) ==
    Errorf(<<"r", "e", "q", "u", "e", "s", "t", " ", "f", "a", "i", "l", "e", "d",
             " ", "-", " ">> \o ErrorMsg(err))

\* client.Do failed: return err
DoError(err) == err

\* ioutil.ReadAll failed
ReadError(err) ==
    Errorf(<<"f", "a", "i", "l", "e", "d", " ", "t", "o", " ", "r", "e", "a", "d", " ",
             "r", "e", "s", "p", "o", "n", "s", "e", " ", "b", "o", "d", "y", " ", "-", " ">>
           \o ErrorMsg(err))

\* the status check with the body left out of the message
StatusErrorWithoutBody(statusCode, status, body, r) ==
    IF statusCode = StatusNotFound THEN ErrNotFound(URLString(r.URL))
    ELSE IF statusCode # StatusOK
    THEN Errorf(<<"r", "e", "q", "u", "e", "s", "t", " ", "f", "a", "i", "l", "e", "d",
                  " ", "-", " ">> \o Quote(status))
    ELSE NilErr

\* the status check: the error it returns, NilErr when the status is 200
StatusError(statusCode, status, body, r) ==
    IF statusCode = StatusNotFound THEN ErrNotFound(URLString(r.URL))
    ELSE IF statusCode # StatusOK
    THEN Errorf(<<"r", "e", "q", "u", "e", "s", "t", " ", "f", "a", "i", "l", "e", "d",
                  " ", "-", " ">> \o Quote(status)
                \o <<",", " ", "r", "e", "s", "p", "o", "n", "s", "e", ":", " ">>
                \o Quote(body))
    ELSE NilErr

\* the parse failure reported without the body
ParseErrorWithoutBody(body, err) ==
    Errorf(<<"f", "a", "i", "l", "e", "d", " ", "t", "o", " ", "p", "a", "r", "s", "e",
             " ", "o", "u", "t", "p", "u", "t", ".", " ", "E", "r", "r", "o", "r", ":", " ">>
           \o ErrorMsg(err))

\* json.Unmarshal failed
ParseError(body, err) ==
    Errorf(<<"f", "a", "i", "l", "e", "d", " ", "t", "o", " ", "p", "a", "r", "s", "e",
             " ", "o", "u", "t", "p", "u", "t", ".", " ", "R", "e", "s", "p", "o", "n",
             "s", "e", ":", " ">> \o Quote(body)
           \o <<".", " ", "E", "r", "r", "o", "r", ":", " ">> \o ErrorMsg(err))

\* the body left open
DeferredCloseForgotten(rs) == rs

\* defer response.Body.Close()
DeferredClose(rs) == [rs EXCEPT !.closed = TRUE]

\* GetSummary's two return statements
ReturnBuildError(err) == [summaryNil |-> TRUE, err |-> err]
ReturnSummary(sum, err) == [summaryNil |-> sum.nil, err |-> err]

(***************************************************************************)
(* The transport: what client.Do can give back.                           *)
(***************************************************************************)
StatusLine(code) ==
    CASE code = 200 -> <<"2", "0", "0", " ", "O", "K">>
      [] code = 204 -> <<"2", "0", "4", " ", "N", "o", " ", "C", "o", "n", "t", "e", "n", "t">>
      [] code = 404 -> <<"4", "0", "4", " ", "N", "o", "t", " ", "F", "o", "u", "n", "d">>
      [] code = 500 -> <<"5", "0", "0", " ", "I", "n", "t", "e", "r", "n", "a", "l", " ", "S",
                         "e", "r", "v", "e", "r", " ", "E", "r", "r", "o", "r">>

BodyValid == <<"{", "\"", "n", "o", "d", "e", "\"", ":", "{", "\"", "n", "o", "d", "e", "N",
               "a", "m", "e", "\"", ":", "\"", "n", "1", "\"", "}", "}">>
BodyValid2 == <<"{", "\"", "n", "o", "d", "e", "\"", ":", "{", "\"", "n", "o", "d", "e", "N",
                "a", "m", "e", "\"", ":", "\"", "n", "2", "\"", "}", "}">>
BodyMismatch == <<"{", "\"", "n", "o", "d", "e", "\"", ":", "{", "\"", "n", "o", "d", "e",
                  "N", "a", "m", "e", "\"", ":", "\"", "n", "1", "\"", "}", ",", "\"", "n",
                  "o", "d", "e", "\"", ":", "5", "}">>
BodyTruncated == <<"{", "\"", "n", "o", "d", "e", "\"", ":">>
BodyNotJSON == <<"n", "o", "t", " ", "j", "s", "o", "n">>
BodyInternal == <<"i", "n", "t", "e", "r", "n", "a", "l", " ", "e", "r", "r", "o", "r">>
BodyNull == <<"n", "u", "l", "l">>
BodyEmpty == <<>>
\* bodies that end with a newline, as those written by http.Error do
BodyInternalNL == BodyInternal \o <<"\n">>
BodyNotJSONNL == BodyNotJSON \o <<"\n">>
BodyValidNL == BodyValid \o <<"\n">>
\* a body of one double quote, and one of a control byte
BodyQuote == <<"\"">>
BodyNUL == <<"NUL">>
\* a body that ends inside a literal name
BodyCutLiteral == <<"{", "\"", "n", "o", "d", "e", "\"", ":", "n", "u", "l">>

Bodies == {BodyValid, BodyValid2, BodyMismatch, BodyTruncated, BodyNotJSON,
           BodyInternal, BodyNull, BodyEmpty, BodyInternalNL, BodyNotJSONNL,
           BodyValidNL, BodyQuote, BodyNUL, BodyCutLiteral}
StatusCodes == {200, 204, 404, 500}

\* the error a failing read of the body gives
ReadFailure == MkErr("*errors.errorString",
                     <<"u", "n", "e", "x", "p", "e", "c", "t", "e", "d", " ", "E", "O", "F">>)

TransportCauses == {<<"c", "o", "n", "n", "e", "c", "t", "i", "o", "n", " ", "r", "e", "f",
                      "u", "s", "e", "d">>,
                    <<"i", "/", "o", " ", "t", "i", "m", "e", "o", "u", "t">>}

NoAnswer == [kind |-> "none", err |-> NilErr, StatusCode |-> 0, Status |-> <<>>,
             Body |-> <<>>, readFails |-> FALSE, failAt |-> 0]

\* a response: its status, the body the server sends, and whether reading the
\* body fails after failAt bytes
Response(code, b, fails, at) ==
    [kind |-> "response", err |-> NilErr, StatusCode |-> code, Status |-> StatusLine(code),
     Body |-> b, readFails |-> fails, failAt |-> at]

\* the RoundTripper failed with this cause
TransportFailure(cause) ==
    [kind |-> "error", err |-> MkErr("*errors.errorString", cause), StatusCode |-> 0,
     Status |-> <<>>, Body |-> <<>>, readFails |-> FALSE, failAt |-> 0]

\* what client.Do returns for the request r when the transport answers a: a
\* response as it is, a failure as a *url.Error of the operation "Get"
ClientDoResult(a, r) ==
    IF a.kind = "error"
    THEN [a EXCEPT !.err = MkErr("*url.Error",
                                 <<"G", "e", "t", " ">> \o Quote(URLString(r.URL))
                                 \o <<":", " ">> \o ErrorMsg(a.err))]
    ELSE a

Answers ==
    {TransportFailure(cause) : cause \in TransportCauses}
    \cup {Response(code, b, FALSE, 0) : code \in StatusCodes, b \in Bodies}
    \cup UNION {{Response(code, b, TRUE, at) : code \in StatusCodes,
                                               at \in {0, Len(b) \div 2}} : b \in Bodies}

HostAlphabet == {"n", "1", ".", "/", "%"}
RECURSIVE SeqsUpTo(_, _)
SeqsUpTo(A, n) ==
    IF n = 0 THEN {<<>>}
    ELSE LET shorter == SeqsUpTo(A, n - 1)
         IN shorter \cup {Append(q, a) : q \in shorter, a \in A}
Hosts == SeqsUpTo(HostAlphabet, MaxHostLen)
Ports == {10250, 10255}

(***************************************************************************)
(* The state: one client, and for every caller the call it is in.          *)
(***************************************************************************)
Callers == 1..NumCallers

VARIABLES
    args,     \* the arguments NewKubeletClient was called with
    kc,       \* the kubeletClient
    pc,       \* where each caller is in GetSummary
    host,     \* the host argument of the call
    req,      \* the *http.Request of the call
    sent,     \* the requests the call has handed to client.Do, with the client
    answer,   \* what client.Do returned to the call
    resp,     \* the response body: acquired, bytes read, end reached, closed
    body,     \* the bytes ioutil.ReadAll returned
    summary,  \* the stats.Summary the call allocated
    ret,      \* what GetSummary returned: the summary pointer and the error
    outcome   \* the return statement the call left by

vars == <<args, kc, pc, host, req, sent, answer, resp, body, summary, ret, outcome>>

NoResp == [have |-> FALSE, pos |-> 0, eof |-> FALSE, closed |-> FALSE]
NoRet == [summaryNil |-> TRUE, err |-> NilErr]

Init ==
    /\ \E port \in Ports, insecure \in BOOLEAN :
          /\ args = [transport |-> "transport", port |-> port, portIsInsecure |-> insecure]
          /\ kc = NewKubeletClient("transport", port, insecure)
    /\ pc = [c \in Callers |-> "Idle"]
    /\ host = [c \in Callers |-> <<>>]
    /\ req = [c \in Callers |-> NoReq]
    /\ sent = [c \in Callers |-> <<>>]
    /\ answer = [c \in Callers |-> NoAnswer]
    /\ resp = [c \in Callers |-> NoResp]
    /\ body = [c \in Callers |-> <<>>]
    /\ summary = [c \in Callers |-> NilSummary]
    /\ ret = [c \in Callers |-> NoRet]
    /\ outcome = [c \in Callers |-> "none"]

\* a caller enters GetSummary(h)
GetSummary(c, h) ==
    /\ pc[c] = "Idle"
    /\ pc' = [pc EXCEPT ![c] = "Building"]
    /\ host' = [host EXCEPT ![c] = h]
    /\ UNCHANGED <<args, kc, req, sent, answer, resp, body, summary, ret, outcome>>

\* GetSummary up to the call of client.Do: the URL, the request, the summary,
\* the client; a URL http.NewRequest rejects ends the call at once
BuildRequest(c) ==
    /\ pc[c] = "Building"
    /\ LET r == NewRequest(<<"G", "E", "T">>, URLString(SummaryURL(kc, host[c])))
       IN IF r.err # NilErr
          THEN /\ ret' = [ret EXCEPT ![c] = ReturnBuildError(r.err)]
               /\ outcome' = [outcome EXCEPT ![c] = "BuildError"]
               /\ pc' = [pc EXCEPT ![c] = "Returned"]
               /\ UNCHANGED <<req, sent, summary>>
          ELSE /\ req' = [req EXCEPT ![c] = r.req]
               /\ summary' = [summary EXCEPT ![c] = NewSummary]
               /\ sent' = [sent EXCEPT ![c] = Append(@, [client |-> ClientOf(kc), req |-> r.req])]
               /\ pc' = [pc EXCEPT ![c] = "Sent"]
               /\ UNCHANGED <<ret, outcome>>
    /\ UNCHANGED <<args, kc, host, answer, resp, body>>

\* client.Do with a retry: after an error the call builds and sends again
ClientDoRetry(c, a) ==
    /\ pc[c] = "Sent"
    /\ LET got == ClientDoResult(a, req[c])
       IN /\ answer' = [answer EXCEPT ![c] = got]
          /\ IF got.kind = "error"
             THEN /\ pc' = [pc EXCEPT ![c] = "Building"]
                  /\ UNCHANGED <<resp, ret, outcome>>
             ELSE /\ resp' = [resp EXCEPT ![c] = [NoResp EXCEPT !.have = TRUE]]
                  /\ pc' = [pc EXCEPT ![c] = "Received"]
                  /\ UNCHANGED <<ret, outcome>>
    /\ UNCHANGED <<args, kc, host, req, sent, body, summary>>

\* client.Do returns: an error, which ends the call, or a response, whose
\* body is closed when postRequestAndGetValue returns
ClientDo(c, a) ==
    /\ pc[c] = "Sent"
    /\ LET got == ClientDoResult(a, req[c])
       IN /\ answer' = [answer EXCEPT ![c] = got]
          /\ IF got.kind = "error"
             THEN /\ ret' = [ret EXCEPT ![c] = ReturnSummary(summary[c], DoError(got.err))]
                  /\ outcome' = [outcome EXCEPT ![c] = "TransportError"]
                  /\ pc' = [pc EXCEPT ![c] = "Returned"]
                  /\ UNCHANGED resp
             ELSE /\ resp' = [resp EXCEPT ![c] = [NoResp EXCEPT !.have = TRUE]]
                  /\ pc' = [pc EXCEPT ![c] = "Received"]
                  /\ UNCHANGED <<ret, outcome>>
    /\ UNCHANGED <<args, kc, host, req, sent, body, summary>>

\* ioutil.ReadAll(response.Body): reads to the end of the body, or to the
\* byte where the read fails
ReadAll(c) ==
    /\ pc[c] = "Received"
    /\ IF answer[c].readFails
       THEN /\ body' = [body EXCEPT ![c] = Take(answer[c].Body, answer[c].failAt)]
            /\ resp' = [resp EXCEPT ![c] = DeferredClose([@ EXCEPT !.pos = answer[c].failAt])]
            /\ ret' = [ret EXCEPT ![c] = ReturnSummary(summary[c], ReadError(ReadFailure))]
            /\ outcome' = [outcome EXCEPT ![c] = "ReadError"]
            /\ pc' = [pc EXCEPT ![c] = "Returned"]
       ELSE /\ body' = [body EXCEPT ![c] = answer[c].Body]
            /\ resp' = [resp EXCEPT ![c] = [@ EXCEPT !.pos = Len(answer[c].Body), !.eof = TRUE]]
            /\ pc' = [pc EXCEPT ![c] = "BodyRead"]
            /\ UNCHANGED <<ret, outcome>>
    /\ UNCHANGED <<args, kc, host, req, sent, answer, summary>>

\* the status check on the response whose body has been read
CheckStatus(c) ==
    /\ pc[c] = "BodyRead"
    /\ LET err == StatusError(answer[c].StatusCode, answer[c].Status, body[c], req[c])
       IN IF err # NilErr
          THEN /\ resp' = [resp EXCEPT ![c] = DeferredClose(@)]
               /\ ret' = [ret EXCEPT ![c] = ReturnSummary(summary[c], err)]
               /\ outcome' = [outcome EXCEPT ![c] =
                                 IF answer[c].StatusCode = StatusNotFound
                                 THEN "NotFound" ELSE "HTTPError"]
               /\ pc' = [pc EXCEPT ![c] = "Returned"]
          ELSE /\ pc' = [pc EXCEPT ![c] = "Decoding"]
               /\ UNCHANGED <<resp, ret, outcome>>
    /\ UNCHANGED <<args, kc, host, req, sent, answer, body, summary>>

\* decoding into one summary that all calls share
DecodeShared(c) ==
    /\ pc[c] = "Decoding"
    /\ LET u == Unmarshal(body[c], summary[c].v)
       IN /\ summary' = [x \in Callers |->
                            IF summary[x].nil /\ x # c THEN summary[x]
                            ELSE [summary[x] EXCEPT !.v = u.value]]
          /\ ret' = [ret EXCEPT ![c] =
                        ReturnSummary(summary[c],
                                      IF u.err # NilErr THEN ParseError(body[c], u.err)
                                      ELSE NilErr)]
          /\ outcome' = [outcome EXCEPT ![c] =
                            IF u.err # NilErr THEN "ParseError" ELSE "Success"]
    /\ resp' = [resp EXCEPT ![c] = DeferredClose(@)]
    /\ pc' = [pc EXCEPT ![c] = "Returned"]
    /\ UNCHANGED <<args, kc, host, req, sent, answer, body>>

\* json.Unmarshal(body, value) into the call's summary, and the return
Decode(c) ==
    /\ pc[c] = "Decoding"
    /\ LET u == Unmarshal(body[c], summary[c].v)
       IN /\ summary' = [summary EXCEPT ![c] = [@ EXCEPT !.v = u.value]]
          /\ ret' = [ret EXCEPT ![c] =
                        ReturnSummary(summary[c],
                                      IF u.err # NilErr THEN ParseError(body[c], u.err)
                                      ELSE NilErr)]
          /\ outcome' = [outcome EXCEPT ![c] =
                            IF u.err # NilErr THEN "ParseError" ELSE "Success"]
    /\ resp' = [resp EXCEPT ![c] = DeferredClose(@)]
    /\ pc' = [pc EXCEPT ![c] = "Returned"]
    /\ UNCHANGED <<args, kc, host, req, sent, answer, body>>

\* the caller has taken the result; nothing of the call is kept
Finish(c) ==
    /\ pc[c] = "Returned"
    /\ pc' = [pc EXCEPT ![c] = "Idle"]
    /\ host' = [host EXCEPT ![c] = <<>>]
    /\ req' = [req EXCEPT ![c] = NoReq]
    /\ sent' = [sent EXCEPT ![c] = <<>>]
    /\ answer' = [answer EXCEPT ![c] = NoAnswer]
    /\ resp' = [resp EXCEPT ![c] = NoResp]
    /\ body' = [body EXCEPT ![c] = <<>>]
    /\ summary' = [summary EXCEPT ![c] = NilSummary]
    /\ ret' = [ret EXCEPT ![c] = NoRet]
    /\ outcome' = [outcome EXCEPT ![c] = "none"]
    /\ UNCHANGED <<args, kc>>

\* one caller, every host and every answer of the transport
Next ==
    \/ \E h \in Hosts : GetSummary(1, h)
    \/ BuildRequest(1)
    \/ \E a \in Answers : ClientDo(1, a)
    \/ ReadAll(1)
    \/ CheckStatus(1)
    \/ Decode(1)
    \/ Finish(1)

Spec == Init /\ [][Next]_vars

(***************************************************************************)
(* Several callers on the one client, their steps interleaved.  Hosts and  *)
(* answers are a selection that reaches every return statement.            *)
(***************************************************************************)
ConcHosts == {<<"n", "1">>, <<"n", "/">>}
ConcAnswers ==
    {TransportFailure(<<"i", "/", "o", " ", "t", "i", "m", "e", "o", "u", "t">>),
     Response(200, BodyValid, FALSE, 0),
     Response(200, BodyValid2, FALSE, 0),
     Response(200, BodyMismatch, FALSE, 0),
     Response(404, BodyEmpty, FALSE, 0),
     Response(500, BodyInternal, TRUE, 0),
     Response(500, BodyInternalNL, FALSE, 0)}

NextConcurrent ==
    \E c \in Callers :
        \/ \E h \in ConcHosts : GetSummary(c, h)
        \/ BuildRequest(c)
        \/ \E a \in ConcAnswers : ClientDo(c, a)
        \/ ReadAll(c)
        \/ CheckStatus(c)
        \/ Decode(c)
        \/ Finish(c)

SpecConcurrent == Init /\ [][NextConcurrent]_vars

(***************************************************************************)
(* Properties.                                                             *)
(***************************************************************************)
Returned(c) == pc[c] = "Returned"
GotResponse(c) == answer[c].kind = "response"
RequestURL(c) == URLString(req[c].URL)

\* C1: whenever the transport answers with status 404, GetSummary returns an
\* error that IsNotFoundError accepts and that carries the full request URL,
\* whatever happens while the body is read.
C1_NotFoundOnEvery404 ==
    \A c \in Callers :
        (Returned(c) /\ GotResponse(c) /\ answer[c].StatusCode = StatusNotFound)
        => /\ IsNotFoundError(ret[c].err)
           /\ ret[c].err.text = RequestURL(c)

\* C2: every call returns either a non-nil summary with a nil error, or a
\* non-nil error with no summary.
C2_SummaryOrErrorNeverBoth ==
    \A c \in Callers :
        Returned(c)
        => \/ ret[c].err = NilErr /\ ~ret[c].summaryNil
           \/ ret[c].err # NilErr /\ ret[c].summaryNil

\* C3 as stated: every response a call obtained is fully drained and closed
\* when the call returns, on every exit path.
C3_DrainedAndClosedOnEveryPath ==
    \A c \in Callers :
        (Returned(c) /\ resp[c].have)
        => /\ resp[c].closed
           /\ resp[c].eof
           /\ resp[c].pos = Len(answer[c].Body)

\* C3 as amended: every response a call obtained is closed when the call
\* returns; its body has been read to the end unless reading it failed, and
\* then it has been read up to the failure and not further.
C3_ClosedOnEveryPathDrainedUnlessReadFails ==
    \A c \in Callers :
        (Returned(c) /\ resp[c].have)
        => /\ resp[c].closed
           /\ ~answer[c].readFails => (resp[c].eof /\ resp[c].pos = Len(answer[c].Body))
           /\ answer[c].readFails => (~resp[c].eof /\ resp[c].pos = answer[c].failAt)

C3_Witness ==
    \E c \in Callers :
        /\ Returned(c) /\ resp[c].have /\ resp[c].closed
        /\ answer[c].readFails /\ resp[c].pos < Len(answer[c].Body)

\* the states of the specification's state machine
Phase(p) ==
    CASE p = "Idle" -> "Idle"
      [] p = "Building" -> "Building"
      [] p \in {"Sent", "Received", "BodyRead", "Decoding"} -> "Sent"
      [] p = "Returned" -> "Terminal"

SpecOutcome(o) ==
    CASE o = "Success" -> "Success"
      [] o = "NotFound" -> "NotFound"
      [] o = "HTTPError" -> "HTTPError"
      [] o = "TransportError" -> "TransportError"
      [] o \in {"ReadError", "ParseError"} -> "DecodeError"
      [] OTHER -> o

TerminalOutcomes == {"Success", "NotFound", "HTTPError", "TransportError", "DecodeError"}

\* C4 as stated: a call that has returned has handed exactly one request to
\* the HTTP client, for any host, and ended in one of the five outcomes.
C4_ExactlyOneRequestForAnyHost ==
    \A c \in Callers :
        Returned(c)
        => /\ Len(sent[c]) = 1
           /\ SpecOutcome(outcome[c]) \in TerminalOutcomes

\* C4 as amended: a call hands at most one request to the HTTP client; when
\* http.NewRequest accepts the URL built from the host it hands exactly one
\* and goes Idle, Building, Sent, one of the five outcomes, Idle, without a
\* further request after a failure; when http.NewRequest rejects the URL it
\* hands none and returns from Building with that error.
C4_AtMostOneRequestInOrder ==
    [][\A c \in Callers :
          /\ Len(sent'[c]) <= 1
          /\ pc'[c] # pc[c] =>
               \/ /\ pc[c] = "Idle" /\ pc'[c] = "Building"
                  /\ sent'[c] = <<>>
               \/ /\ pc[c] = "Building" /\ pc'[c] = "Sent"
                  /\ Len(sent'[c]) = 1
                  /\ ParseURL(URLString(SummaryURL(kc, host[c]))).ok
               \/ /\ pc[c] = "Building" /\ pc'[c] = "Returned"
                  /\ sent'[c] = <<>>
                  /\ outcome'[c] = "BuildError"
                  /\ ret'[c].err # NilErr
                  /\ ~ParseURL(URLString(SummaryURL(kc, host[c]))).ok
               \/ /\ Phase(pc[c]) = "Sent" /\ Phase(pc'[c]) = "Sent"
                  /\ sent'[c] = sent[c]
               \/ /\ Phase(pc[c]) = "Sent" /\ pc'[c] = "Returned"
                  /\ sent'[c] = sent[c]
                  /\ Len(sent'[c]) = 1
                  /\ SpecOutcome(outcome'[c]) \in TerminalOutcomes
               \/ /\ pc[c] = "Returned" /\ pc'[c] = "Idle"
                  /\ sent'[c] = <<>>]_vars

C4_Witness ==
    \E c \in Callers :
        /\ Returned(c)
        /\ SpecOutcome(outcome[c]) \in TerminalOutcomes \ {"Success"}
        /\ Len(sent[c]) = 1

\* the text has a character that %q does not write as it is
NeedsEscape(b) == \E i \in 1..Len(b) : QuoteChar(b[i]) # <<b[i]>>

\* C5 as stated: for every response whose status is neither 200 nor 404,
\* GetSummary returns a non-nil error that is not a not-found error and
\* whose message contains the status line and the full body text; nothing is
\* decoded.
C5_StatusErrorCarriesStatusAndBody ==
    \A c \in Callers :
        (Returned(c) /\ GotResponse(c) /\ answer[c].StatusCode \notin {StatusOK, StatusNotFound})
        => /\ ret[c].err # NilErr
           /\ ~IsNotFoundError(ret[c].err)
           /\ Contains(ErrorMsg(ret[c].err), answer[c].Status)
           /\ Contains(ErrorMsg(ret[c].err), answer[c].Body)
           /\ summary[c].v = EmptySummary

\* C5 as amended: for every response whose status is neither 200 nor 404 the
\* error is non-nil and not a not-found error and nothing is decoded.  When
\* the body is read to its end the message is "request failed - ", the
\* status line as %q writes it, ", response: " and the whole body as %q
\* writes it; it contains the raw body text whenever the body has no
\* character that %q rewrites (double quote, backslash, control byte).
\* When reading the body fails the message is "failed to read response
\* body - " and the message of the read error, and nothing else.
C5_StatusErrorCarriesQuotedStatusAndBody ==
    \A c \in Callers :
        (Returned(c) /\ GotResponse(c) /\ answer[c].StatusCode \notin {StatusOK, StatusNotFound})
        => /\ ret[c].err # NilErr
           /\ ~IsNotFoundError(ret[c].err)
           /\ summary[c].v = EmptySummary
           /\ ~answer[c].readFails =>
                /\ outcome[c] = "HTTPError"
                /\ ErrorMsg(ret[c].err) =
                     <<"r", "e", "q", "u", "e", "s", "t", " ", "f", "a", "i", "l", "e",
                       "d", " ", "-", " ">> \o Quote(answer[c].Status)
                     \o <<",", " ", "r", "e", "s", "p", "o", "n", "s", "e", ":", " ">>
                     \o Quote(answer[c].Body)
                /\ Contains(ErrorMsg(ret[c].err), answer[c].Status)
                /\ ~NeedsEscape(answer[c].Body)
                     => Contains(ErrorMsg(ret[c].err), answer[c].Body)
           /\ answer[c].readFails =>
                /\ outcome[c] = "ReadError"
                /\ ErrorMsg(ret[c].err) =
                     <<"f", "a", "i", "l", "e", "d", " ", "t", "o", " ", "r", "e", "a",
                       "d", " ", "r", "e", "s", "p", "o", "n", "s", "e", " ", "b", "o",
                       "d", "y", " ", "-", " ">> \o ErrorMsg(ReadFailure)

\* a 500 whose body ends with a newline: the message holds the quoted body
\* and not the raw one
C5_Witness ==
    \E c \in Callers :
        /\ Returned(c) /\ GotResponse(c) /\ answer[c].StatusCode = 500
        /\ ~answer[c].readFails /\ answer[c].Body = BodyInternalNL
        /\ outcome[c] = "HTTPError"
        /\ Contains(ErrorMsg(ret[c].err), Quote(BodyInternalNL))
        /\ ~Contains(ErrorMsg(ret[c].err), BodyInternalNL)

\* C6: IsNotFoundError is true of the error a call returns exactly when the
\* call left by the 404 branch, and then the error is the ErrNotFound of the
\* request URL; it is false of nil, of the transport's error, of the body
\* reader's error and of the errors made from them.
C6_IsNotFoundExactlyFor404Value ==
    /\ ~IsNotFoundError(NilErr)
    /\ ~IsNotFoundError(ReadFailure)
    /\ \A c \in Callers :
          /\ ~IsNotFoundError(answer[c].err)
          /\ Returned(c) =>
               /\ IsNotFoundError(ret[c].err) <=> outcome[c] = "NotFound"
               /\ IsNotFoundError(ret[c].err) =>
                    /\ answer[c].StatusCode = StatusNotFound
                    /\ ret[c].err = ErrNotFound(RequestURL(c))

C6_Witness ==
    \E c1 \in Callers :
        /\ Returned(c1) /\ outcome[c1] = "NotFound" /\ IsNotFoundError(ret[c1].err)

\* C7: when client.Do returns an error, GetSummary returns that very error,
\* with the transport's cause in its message; it is not nil and not a
\* not-found error, and no body is read, no status checked, nothing decoded.
C7_TransportErrorReturnedAsIs ==
    \A c \in Callers :
        (Returned(c) /\ answer[c].kind = "error")
        => /\ ret[c].err = answer[c].err
           /\ ret[c].err # NilErr
           /\ \E cause \in TransportCauses : Contains(ErrorMsg(ret[c].err), cause)
           /\ ~IsNotFoundError(ret[c].err)
           /\ outcome[c] = "TransportError"
           /\ ~resp[c].have
           /\ body[c] = <<>>
           /\ summary[c].v = EmptySummary

C7_Witness ==
    \E c \in Callers :
        /\ Returned(c) /\ answer[c].kind = "error" /\ ret[c].err = answer[c].err

\* the body was read to its end and json.Unmarshal rejects it
UndecodableBody(c) ==
    /\ GotResponse(c) /\ answer[c].StatusCode = StatusOK /\ ~answer[c].readFails
    /\ Unmarshal(answer[c].Body, EmptySummary).err # NilErr

\* C8 as stated: a 200 response whose body is read but does not decode gives
\* a non-nil error, not a not-found error, whose message contains the raw
\* body text and the parse error; and a 200 response gives a nil error only
\* if its body decoded without error.
C8_ParseErrorContainsRawBody ==
    \A c \in Callers :
        /\ (Returned(c) /\ UndecodableBody(c))
           => /\ ret[c].err # NilErr
              /\ ~IsNotFoundError(ret[c].err)
              /\ Contains(ErrorMsg(ret[c].err), answer[c].Body)
              /\ Contains(ErrorMsg(ret[c].err),
                          ErrorMsg(Unmarshal(answer[c].Body, EmptySummary).err))
        /\ (Returned(c) /\ GotResponse(c) /\ answer[c].StatusCode = StatusOK
              /\ ret[c].err = NilErr)
           => Unmarshal(answer[c].Body, EmptySummary).err = NilErr

\* C8 as amended: a 200 response whose body is read but does not decode
\* gives a non-nil error, not a not-found error, whose message is "failed to
\* parse output. Response: ", the whole body as %q writes it, ". Error: "
\* and the message of the parse error; it contains the raw body text
\* whenever the body has no character that %q rewrites (double quote,
\* backslash, control byte).  A 200 response gives a nil error only if its
\* body decoded without error.
C8_ParseErrorContainsQuotedBody ==
    \A c \in Callers :
        /\ (Returned(c) /\ UndecodableBody(c))
           => /\ ret[c].err # NilErr
              /\ ~IsNotFoundError(ret[c].err)
              /\ ErrorMsg(ret[c].err) =
                   <<"f", "a", "i", "l", "e", "d", " ", "t", "o", " ", "p", "a", "r",
                     "s", "e", " ", "o", "u", "t", "p", "u", "t", ".", " ", "R", "e",
                     "s", "p", "o", "n", "s", "e", ":", " ">> \o Quote(answer[c].Body)
                   \o <<".", " ", "E", "r", "r", "o", "r", ":", " ">>
                   \o ErrorMsg(Unmarshal(answer[c].Body, EmptySummary).err)
              /\ ~NeedsEscape(answer[c].Body)
                   => Contains(ErrorMsg(ret[c].err), answer[c].Body)
        /\ (Returned(c) /\ GotResponse(c) /\ answer[c].StatusCode = StatusOK
              /\ ret[c].err = NilErr)
           => Unmarshal(answer[c].Body, EmptySummary).err = NilErr

\* a 200 whose body is not JSON and ends with a newline: the message holds
\* the quoted body and not the raw one
C8_Witness ==
    \E c \in Callers :
        /\ Returned(c) /\ UndecodableBody(c) /\ answer[c].Body = BodyNotJSONNL
        /\ outcome[c] = "ParseError"
        /\ Contains(ErrorMsg(ret[c].err), Quote(BodyNotJSONNL))
        /\ ~Contains(ErrorMsg(ret[c].err), BodyNotJSONNL)

\* C9: every request a call hands to the HTTP client is a GET without a body
\* whose URL has the scheme http if the client was built with the insecure
\* flag and https otherwise, the host h:port, the path /stats/summary/ and
\* no query.
C9_RequestIsGetOfSummaryURL ==
    \A c \in Callers : \A i \in 1..Len(sent[c]) :
        LET r == sent[c][i].req
        IN /\ r.Method = <<"G", "E", "T">>
           /\ r.Body = "nil"
           /\ r.URL.Scheme = SchemeHTTP <=> args.portIsInsecure
           /\ r.URL.Scheme = SchemeHTTPS <=> ~args.portIsInsecure
           /\ r.URL.Host = host[c] \o <<":">> \o Itoa(args.port)
           /\ r.URL.Path = SummaryPath
           /\ r.URL.RawQuery = <<>>
           /\ sent[c][i].client.Transport = args.transport

C9_Witness ==
    \E c \in Callers :
        /\ Len(sent[c]) = 1
        /\ args.portIsInsecure
        /\ Len(host[c]) = MaxHostLen /\ host[c][1] = "%"
        /\ sent[c][1].req.URL.Scheme = SchemeHTTP

\* a 200 response whose body is read and decodes
DecodableAnswer(a) ==
    /\ a.kind = "response" /\ a.StatusCode = StatusOK /\ ~a.readFails
    /\ Unmarshal(a.Body, EmptySummary).err = NilErr

\* C10: under any interleaving no call changes the client; what a call
\* returns depends only on its own host and on the answer to its own
\* request, and its summary is decoded from an empty one; two calls answered
\* 200 with the same valid body both return a nil error and equal
\* summaries, with two requests between them and both responses closed.
C10_CallsAreIndependent ==
    /\ kc = NewKubeletClient(args.transport, args.port, args.portIsInsecure)
    /\ \A c \in Callers :
          (Returned(c) /\ outcome[c] \in {"Success", "ParseError"})
          => summary[c].v = Unmarshal(answer[c].Body, EmptySummary).value
    /\ \A c1, c2 \in Callers :
          (c1 # c2 /\ Returned(c1) /\ Returned(c2))
          => /\ (host[c1] = host[c2] /\ answer[c1] = answer[c2])
                => /\ ret[c1] = ret[c2]
                   /\ summary[c1] = summary[c2]
                   /\ outcome[c1] = outcome[c2]
             /\ (answer[c1].Body = answer[c2].Body
                   /\ DecodableAnswer(answer[c1]) /\ DecodableAnswer(answer[c2]))
                => /\ ret[c1].err = NilErr /\ ret[c2].err = NilErr
                   /\ ~ret[c1].summaryNil /\ ~ret[c2].summaryNil
                   /\ summary[c1].v = summary[c2].v
                   /\ Len(sent[c1]) + Len(sent[c2]) = 2
                   /\ resp[c1].closed /\ resp[c2].closed

C10_Witness ==
    \E c1, c2 \in Callers :
        /\ c1 # c2 /\ Returned(c1) /\ Returned(c2)
        /\ answer[c1].Body = BodyValid /\ answer[c2].Body = BodyValid
        /\ DecodableAnswer(answer[c1]) /\ DecodableAnswer(answer[c2])
        /\ ret[c1].err = NilErr /\ summary[c1].v.Node.NodeName = <<"n", "1">>

====
